---- MODULE Spec2Model ----
(***************************************************************************)
(* Redactify (src/redactify/main.py): anonymize_text and the main pipeline *)
(* load_language_model -> read_file -> anonymize_text -> write_file.       *)
(*                                                                         *)
(* A Python str is modelled as a sequence of one-character strings, so     *)
(* that slicing, concatenation and the f-string that builds a placeholder  *)
(* work on characters as the code does.  Offsets are 0-based as in Python. *)
(***************************************************************************)
EXTENDS Integers, Sequences, FiniteSets, TLC

VARIABLES
    pc,                   \* position in main / anonymize_text
    language,             \* main's language argument
    suffix,               \* Path(input_path).suffix
    output_format,        \* main's output_format argument
    in_file,              \* content of the input file
    out_file,             \* content of the output file, or NoFile
    io_log,               \* file operations performed so far, in order
    error,                \* the exception that ended the run, or "none"
    caller,               \* who called anonymize_text: "main" or "direct"
    lang,                 \* nlp.lang
    doc_text,             \* doc.text, the text handed to nlp
    ents,                 \* doc.ents
    text,                 \* the local variable text of anonymize_text
    i,                    \* index of the next entity of the first loop
    replacements,         \* the list replacements
    placeholder_counter,  \* the dict placeholder_counter
    queue                 \* what is left of sorted(replacements, ...)

vars == << pc, language, suffix, output_format, in_file, out_file, io_log,
           error, caller, lang, doc_text, ents, text, i, replacements,
           placeholder_counter, queue >>

-----------------------------------------------------------------------------
(* Bounds of the model *)

MaxLen == 1

MaxEnts == 2

Alphabet == {"B", "b"}

Labels == {"PERSON", "DATE", "GPE", "ORG"}

NoFile == << "<absent>" >>

-----------------------------------------------------------------------------
(* Python helpers *)

Min(a, b) == IF a < b THEN a ELSE b

Max(a, b) == IF a > b THEN a ELSE b

\* A slice bound: negative indices count from the end, all are clamped.
Clip(k, n) == IF k < 0 THEN Max(k + n, 0) ELSE Min(k, n)

\* s[:k]
SliceTo(s, k) == SubSeq(s, 1, Clip(k, Len(s)))

\* s[k:]
SliceFrom(s, k) == SubSeq(s, Clip(k, Len(s)) + 1, Len(s))

\* s[a:b]
Slice(s, a, b) == SubSeq(s, Clip(a, Len(s)) + 1, Clip(b, Len(s)))

DigitChars == << "0", "1", "2", "3", "4", "5", "6", "7", "8", "9" >>

RECURSIVE Digits(_)
\* str(n) for n >= 0, as the f-string formats the ordinal
Digits(n) ==
    IF n < 10 THEN << DigitChars[n + 1] >>
    ELSE Digits(n \div 10) \o << DigitChars[(n % 10) + 1] >>

-----------------------------------------------------------------------------
(* anonymize_text *)

\* placeholder_mapping
PlaceholderMapping(l) ==
    [ PERSON |-> IF l = "he" THEN << "alef", "dalet", "final_mem" >>
                 ELSE << "p", "e", "r", "s", "o", "n" >>,
      DATE   |-> IF l = "he" THEN << "tav", "alef", "resh", "yod", "final_kaf" >>
                 ELSE << "d", "a", "t", "e" >>,
      GPE    |-> IF l = "he" THEN << "mem", "yod", "qof", "vav", "final_mem" >>
                 ELSE << "l", "o", "c", "a", "t", "i", "o", "n" >> ]

\* ent.label_ in placeholder_mapping
InScope(label) == label \in DOMAIN PlaceholderMapping("en")

\* the ordinal taken before the new entry counts: numbering from 0
FormatPlaceholderFromZero(placeholder_type, counter) ==
    placeholder_type \o << "_" >> \o Digits(Cardinality(DOMAIN counter))

\* f"{placeholder_type}_{len(placeholder_counter) + 1}"
FormatPlaceholder(placeholder_type, counter) ==
    placeholder_type \o << "_" >> \o Digits(Cardinality(DOMAIN counter) + 1)

\* no lookup: every occurrence is given a placeholder of its own
RegisterEveryOccurrence(counter, ent, l) ==
    (ent.text :> FormatPlaceholder(PlaceholderMapping(l)[ent.label_], counter)) @@ counter

\* one counter for each category instead of one for all
RegisterPerCategory(counter, ent, l) ==
    IF ent.text \in DOMAIN counter THEN counter
    ELSE LET word == PlaceholderMapping(l)[ent.label_]
             same == { t \in DOMAIN counter :
                         SubSeq(counter[t], 1, Len(word) + 1) = word \o << "_" >> }
         IN  (ent.text :> word \o << "_" >> \o Digits(Cardinality(same) + 1)) @@ counter

\* lines 44-45: the dict after the entity has been looked up
Register(counter, ent, l) ==
    IF ent.text \in DOMAIN counter THEN counter
    ELSE (ent.text :> FormatPlaceholder(PlaceholderMapping(l)[ent.label_], counter))
         @@ counter

\* line 46: the tuple appended to replacements
Replacement(counter, ent) ==
    [ start |-> ent.start_char, end |-> ent.end_char, placeholder |-> counter[ent.text] ]

RECURSIVE InsertDesc(_, _)
\* x goes after every element whose key is >= its own: a stable descending sort
InsertDesc(x, sorted) ==
    IF sorted = << >> THEN << x >>
    ELSE IF Head(sorted).start >= x.start
         THEN << Head(sorted) >> \o InsertDesc(x, Tail(sorted))
         ELSE << x >> \o sorted

RECURSIVE InsertAsc(_, _)
InsertAsc(x, sorted) ==
    IF sorted = << >> THEN << x >>
    ELSE IF Head(sorted).start <= x.start
         THEN << Head(sorted) >> \o InsertAsc(x, Tail(sorted))
         ELSE << x >> \o sorted

RECURSIVE SortedAscending(_)
\* the sort without reverse=True
SortedAscending(rs) ==
    IF rs = << >> THEN << >>
    ELSE InsertAsc(rs[Len(rs)], SortedAscending(SubSeq(rs, 1, Len(rs) - 1)))

RECURSIVE SortedReplacements(_)
\* sorted(replacements, key=lambda x: x[0], reverse=True)
SortedReplacements(rs) ==
    IF rs = << >> THEN << >>
    ELSE InsertDesc(rs[Len(rs)], SortedReplacements(SubSeq(rs, 1, Len(rs) - 1)))

\* the placeholder put in without the span being taken out: text[start:]
SubstituteNoDelete(t, r) == SliceTo(t, r.start) \o r.placeholder \o SliceFrom(t, r.start)

\* end taken as the offset of the last character of the span: text[end + 1:]
SubstituteInclusive(t, r) ==
    SliceTo(t, r.start) \o r.placeholder \o SubSeq(t, Min(r.end + 1, Len(t)) + 1, Len(t))

\* line 49: text[:start] + placeholder + text[end:]
Substitute(t, r) == SliceTo(t, r.start) \o r.placeholder \o SliceFrom(t, r.end)

\* the text entered in the table before the label is looked at
ScanStepRegistersAll(st, ent, l) ==
    IF InScope(ent.label_)
    THEN LET c == Register(st.counter, ent, l)
         IN  [ counter |-> c, replacements |-> Append(st.replacements, Replacement(c, ent)) ]
    ELSE [ st EXCEPT !.counter =
             IF ent.text \in DOMAIN @ THEN @
             ELSE (ent.text :> FormatPlaceholder(<< "e", "n", "t", "i", "t", "y" >>, @)) @@ @ ]

\* lines 42-46: the body of the first loop, on the pair of collections it updates
ScanStep(st, ent, l) ==
    IF InScope(ent.label_)
    THEN LET c == Register(st.counter, ent, l)
         IN  [ counter |-> c, replacements |-> Append(st.replacements, Replacement(c, ent)) ]
    ELSE st

RECURSIVE Scanned(_, _)
\* lines 39-46: placeholder_counter and replacements after the loop over es
Scanned(es, l) ==
    IF es = << >> THEN [ counter |-> << >>, replacements |-> << >> ]
    ELSE ScanStep(Scanned(SubSeq(es, 1, Len(es) - 1), l), es[Len(es)], l)

RECURSIVE ApplyAll(_, _)
\* lines 48-49: the loop over the sorted replacements
ApplyAll(t, q) ==
    IF q = << >> THEN t ELSE ApplyAll(Substitute(t, Head(q)), Tail(q))

\* lines 30-51: what anonymize_text returns for a text and the entities found in it
AnonymizeText(t, es, l) ==
    ApplyAll(t, SortedReplacements(Scanned(es, l).replacements))

\* a span of doc.ents over the text: ent.text is the text between its offsets
Ent(t, s, e, label) ==
    [ start_char |-> s, end_char |-> e, label_ |-> label, text |-> Slice(t, s, e) ]

-----------------------------------------------------------------------------
(* Inputs *)

\* every text of at most n characters
TextsUpTo(n) == UNION { [1..k -> Alphabet] : k \in 0..n }

Texts == TextsUpTo(MaxLen)

SeqsUpTo(S, n) == UNION { [1..k -> S] : k \in 0..n }

\* what a detector that is not trusted may return for a text: any offsets
\* from one before the text to one past it, in any order, overlapping or not
AnySpans(t) ==
    { Ent(t, s, e, label) : s \in -1..Len(t), e \in 0..(Len(t) + 1), label \in Labels }

\* spans within the text, start <= end
ValidSpans(t) ==
    { Ent(t, s, e, label) : s \in 0..Len(t), e \in 0..Len(t), label \in Labels } \cap
    { x \in AnySpans(t) : x.start_char <= x.end_char }

\* Documents of the specification and of the same kind, each with the
\* entities a detector reports for it
AliceText ==
    << "A", "l", "i", "c", "e", " ", "m", "e", "t", " ", "B", "o", "b", ".",
       " ", "A", "l", "i", "c", "e", " ", "l", "e", "f", "t", "." >>

AliceEnts == << Ent(AliceText, 0, 5, "PERSON"), Ent(AliceText, 10, 13, "PERSON"),
               Ent(AliceText, 15, 20, "PERSON") >>

ABText == << "A", "B" >>

ABEnts == << Ent(ABText, 1, 1, "PERSON") >>

JohnText ==
    << "J", "o", "h", "n", " ", "I", "B", "M", " ", "j", "o", "h", "n", " ",
       "J", "o", "h", "n" >>

JohnEnts == << Ent(JohnText, 0, 4, "PERSON"), Ent(JohnText, 9, 13, "PERSON"),
              Ent(JohnText, 5, 8, "ORG"), Ent(JohnText, 14, 18, "PERSON") >>

MayText ==
    << "M", "a", "y", " ", "w", "a", "s", " ", "i", "n", " ", "R", "o", "m",
       "e", ",", " ", "s", "o", " ", "M", "a", "y" >>

MayEnts == << Ent(MayText, 11, 15, "GPE"), Ent(MayText, 0, 3, "DATE"),
             Ent(MayText, 20, 23, "PERSON"), Ent(MayText, 17, 19, "ORG") >>

YorkText ==
    << "N", "e", "w", " ", "Y", "o", "r", "k", " ", "C", "i", "t", "y" >>

YorkEnts == << Ent(YorkText, 0, 8, "GPE"), Ent(YorkText, 4, 13, "GPE") >>

HelloText == << "h", "e", "l", "l", "o" >>

HelloEnts == << Ent(HelloText, 3, 1, "PERSON") >>

Examples ==
    { << AliceText, AliceEnts >>, << ABText, ABEnts >>, << JohnText, JohnEnts >>,
      << MayText, MayEnts >>, << YorkText, YorkEnts >> }

UntrustedExamples == { << HelloText, HelloEnts >> }

ExampleTexts(X) == { x[1] : x \in X }

\* the entity sequences of a detector that keeps within the text
ValidDetections(t) ==
    IF t \in ExampleTexts(Examples) THEN { x[2] : x \in { y \in Examples : y[1] = t } }
    ELSE SeqsUpTo(ValidSpans(t), MaxEnts)

\* the entity sequences of any detector
AnyDetections(t) ==
    IF t \in ExampleTexts(UntrustedExamples)
    THEN { x[2] : x \in { y \in UntrustedExamples : y[1] = t } }
    ELSE SeqsUpTo(AnySpans(t), MaxEnts)

\* doc.ents of a spaCy pipeline: non-empty spans within the text, in text
\* order, none overlapping another
SpacyEnts(t) ==
    { es \in SeqsUpTo(ValidSpans(t), MaxEnts) :
        /\ \A k \in 1..Len(es) : es[k].start_char < es[k].end_char
        /\ \A k \in 1..(Len(es) - 1) : es[k].end_char <= es[k + 1].start_char }

Languages == {"english", "hebrew", "french"}

Suffixes == {".txt", ".docx", ".pdf"}

Formats == {"txt", "docx", "pdf", "odt"}

OldFile == << "o", "l", "d" >>

-----------------------------------------------------------------------------
(* load_language_model, read_file, write_file *)

\* any other language falls back to the English model
LoadedLangDefault(l) == IF l = "hebrew" THEN "he" ELSE "en"

\* lines 9-14: the lang of the model loaded, or the ValueError
LoadedLang(l) ==
    IF l = "english" THEN "en"
    ELSE IF l = "hebrew" THEN "he"
    ELSE "ValueError"

\* lines 20-27: whether read_file opens the file
Readable(sfx) == sfx = ".txt" \/ sfx = ".docx"

\* lines 57-74: whether write_file writes the file
Writable(fmt) == fmt = "txt" \/ fmt = "docx" \/ fmt = "pdf"

-----------------------------------------------------------------------------
(* State machine *)

mainVars == << language, suffix, output_format, in_file, out_file, io_log, error, caller >>

callVars == << doc_text, ents, i, replacements, placeholder_counter, queue >>

NoCall ==
    /\ doc_text = << >> /\ ents = << >> /\ i = 1 /\ replacements = << >>
    /\ placeholder_counter = << >> /\ queue = << >>

NoMain ==
    /\ caller = "direct" /\ error = "none" /\ io_log = << >>
    /\ language = "none" /\ suffix = "none" /\ output_format = "none"
    /\ in_file = << >> /\ out_file = NoFile

\* a call of anonymize_text(text, nlp) with a detector that keeps within the text
Init ==
    /\ pc = "anonymize" /\ NoMain /\ NoCall
    /\ lang \in {"en", "he"}
    /\ text \in Texts \cup ExampleTexts(Examples)

\* a call of anonymize_text(text, nlp) with any detector
InitUntrusted ==
    /\ pc = "anonymize_untrusted" /\ NoMain /\ NoCall
    /\ lang \in {"en", "he"}
    /\ text \in Texts \cup ExampleTexts(UntrustedExamples)

\* a call of main(input_path, output_path, language, output_format)
InitMain ==
    /\ pc = "main" /\ caller = "main" /\ error = "none" /\ io_log = << >>
    /\ language \in Languages /\ suffix \in Suffixes /\ output_format \in Formats
    /\ in_file \in Texts
    /\ out_file \in {NoFile, OldFile}
    /\ lang = "none" /\ text = << >> /\ NoCall

\* line 80: nlp = load_language_model(language)
LoadLanguageModel ==
    /\ pc = "main"
    /\ IF LoadedLang(language) = "ValueError"
       THEN /\ error' = "Unsupported language"
            /\ pc' = "error"
            /\ UNCHANGED lang
       ELSE /\ lang' = LoadedLang(language)
            /\ pc' = "read"
            /\ UNCHANGED error
    /\ UNCHANGED << language, suffix, output_format, in_file, out_file, io_log, caller,
                    text, callVars >>

\* line 83: text = read_file(input_path)
ReadFile ==
    /\ pc = "read"
    /\ IF Readable(suffix)
       THEN /\ text' = in_file
            /\ io_log' = Append(io_log, "read")
            /\ pc' = "anonymize_spacy"
            /\ UNCHANGED error
       ELSE /\ error' = "Unsupported file type"
            /\ pc' = "error"
            /\ UNCHANGED << text, io_log >>
    /\ UNCHANGED << language, suffix, output_format, in_file, out_file, caller, lang,
                    callVars >>

\* the output file opened for writing before the format is looked at
WriteFileOpenFirst ==
    /\ pc = "write"
    /\ io_log' = Append(io_log, "write")
    /\ IF Writable(output_format)
       THEN /\ out_file' = text
            /\ pc' = "done"
            /\ UNCHANGED error
       ELSE /\ out_file' = << >>
            /\ error' = "Unsupported output format"
            /\ pc' = "error"
    /\ UNCHANGED << language, suffix, output_format, in_file, caller, lang, text,
                    callVars >>

\* line 89: write_file(output_path, anonymized_text, output_format), then the print
WriteFile ==
    /\ pc = "write"
    /\ IF Writable(output_format)
       THEN /\ out_file' = text
            /\ io_log' = Append(io_log, "write")
            /\ pc' = "done"
            /\ UNCHANGED error
       ELSE /\ error' = "Unsupported output format"
            /\ pc' = "error"
            /\ UNCHANGED << out_file, io_log >>
    /\ UNCHANGED << language, suffix, output_format, in_file, caller, lang, text,
                    callVars >>

\* lines 32-39: doc = nlp(text) and the empty collections
BeginWith(es) ==
    /\ doc_text' = text
    /\ ents' = es
    /\ i' = 1
    /\ replacements' = << >>
    /\ placeholder_counter' = << >>
    /\ queue' = << >>
    /\ pc' = "scan"
    /\ UNCHANGED << mainVars, lang, text >>

\* nlp keeps its entities within the text, in any order, overlapping or not
Detect ==
    /\ pc = "anonymize"
    /\ \E es \in ValidDetections(text) : BeginWith(es)

\* nlp is whatever the caller passes: its offsets are not to be trusted
DetectUntrusted ==
    /\ pc = "anonymize_untrusted"
    /\ \E es \in AnyDetections(text) : BeginWith(es)

\* nlp is the spaCy pipeline main has loaded
DetectSpacy ==
    /\ pc = "anonymize_spacy"
    /\ \E es \in SpacyEnts(text) : BeginWith(es)

\* lines 41-46: one iteration of the loop over doc.ents
ScanEntity ==
    /\ pc = "scan" /\ i <= Len(ents)
    /\ LET st == ScanStep([ counter |-> placeholder_counter,
                             replacements |-> replacements ], ents[i], lang)
       IN  /\ placeholder_counter' = st.counter
           /\ replacements' = st.replacements
    /\ i' = i + 1
    /\ UNCHANGED << mainVars, pc, lang, doc_text, ents, text, queue >>

\* line 48: the first loop is over, the replacements are sorted
SortReplacements ==
    /\ pc = "scan" /\ i > Len(ents)
    /\ queue' = SortedReplacements(replacements)
    /\ pc' = "apply"
    /\ UNCHANGED << mainVars, lang, doc_text, ents, text, i, replacements,
                    placeholder_counter >>

\* lines 48-49: one iteration of the loop over the sorted replacements
ApplyReplacement ==
    /\ pc = "apply" /\ queue # << >>
    /\ text' = Substitute(text, Head(queue))
    /\ queue' = Tail(queue)
    /\ UNCHANGED << mainVars, pc, lang, doc_text, ents, i, replacements,
                    placeholder_counter >>

\* line 51: return text
Return ==
    /\ pc = "apply" /\ queue = << >>
    /\ pc' = IF caller = "main" THEN "write" ELSE "done"
    /\ UNCHANGED << mainVars, lang, doc_text, ents, text, i, replacements,
                    placeholder_counter, queue >>

Next == Detect \/ ScanEntity \/ SortReplacements \/ ApplyReplacement \/ Return

Spec == Init /\ [][Next]_vars

NextUntrusted ==
    DetectUntrusted \/ ScanEntity \/ SortReplacements \/ ApplyReplacement \/ Return

SpecUntrusted == InitUntrusted /\ [][NextUntrusted]_vars

NextMain ==
    \/ LoadLanguageModel \/ ReadFile \/ DetectSpacy
    \/ ScanEntity \/ SortReplacements \/ ApplyReplacement \/ Return
    \/ WriteFile

SpecMain == InitMain /\ [][NextMain]_vars

-----------------------------------------------------------------------------
(* Vocabulary of the properties *)

InScopeLabels == {"PERSON", "DATE", "GPE"}

\* the in-scope entities among the first n of doc.ents
ScopedIdx(n) == { k \in 1..n : ents[k].label_ \in InScopeLabels }

AllScoped == ScopedIdx(Len(ents))

Returned == pc = "done" /\ caller = "direct"

ValidEnt(e) ==
    0 <= e.start_char /\ e.start_char <= e.end_char /\ e.end_char <= Len(doc_text)

AllValid == \A k \in 1..Len(ents) : ValidEnt(ents[k])

IsEmptySpan(e) == e.start_char = e.end_char

DisjointEnts(a, b) == a.end_char <= b.start_char \/ b.end_char <= a.start_char

\* no two in-scope spans share a character or lie one inside the other
NonOverlapping ==
    \A j \in AllScoped : \A k \in AllScoped : j < k => DisjointEnts(ents[j], ents[k])

\* a zero-length in-scope span is listed before a non-empty in-scope span that
\* starts at the same offset
EmptyListedBeforeNonEmpty ==
    \E j \in AllScoped : \E k \in AllScoped :
        /\ j < k
        /\ IsEmptySpan(ents[j]) /\ ~IsEmptySpan(ents[k])
        /\ ents[j].start_char = ents[k].start_char

\* character p (0-based) of the input lies outside every in-scope span
Outside(p) ==
    \A k \in AllScoped : ~(ents[k].start_char <= p /\ p < ents[k].end_char)

RECURSIVE KeptFrom(_)
\* the characters of the input from offset p on that lie outside every in-scope span
KeptFrom(p) ==
    IF p >= Len(doc_text) THEN << >>
    ELSE (IF Outside(p) THEN << doc_text[p + 1] >> ELSE << >>) \o KeptFrom(p + 1)

AssignedPlaceholders == { placeholder_counter[t] : t \in DOMAIN placeholder_counter }

IsPrefix(a, s) == Len(a) <= Len(s) /\ SubSeq(s, 1, Len(a)) = a

RECURSIVE CanStrip(_, _)
\* deleting some occurrences of assigned placeholders from out leaves keep
CanStrip(out, keep) ==
    \/ out = << >> /\ keep = << >>
    \/ /\ out # << >> /\ keep # << >>
       /\ Head(out) = Head(keep)
       /\ CanStrip(Tail(out), Tail(keep))
    \/ \E ph \in AssignedPlaceholders :
          /\ IsPrefix(ph, out)
          /\ CanStrip(SubSeq(out, Len(ph) + 1, Len(out)), keep)

\* the placeholder assigned to entity k
Assigned(k) == placeholder_counter[ents[k].text]

RECURSIVE Repeat(_, _)
Repeat(x, n) == IF n = 0 THEN << >> ELSE x \o Repeat(x, n - 1)

EmptyAt(p) == { k \in AllScoped : IsEmptySpan(ents[k]) /\ ents[k].start_char = p }

NonEmptyAt(p) == { k \in AllScoped : ~IsEmptySpan(ents[k]) /\ ents[k].start_char = p }

RECURSIVE Simultaneous(_)
\* the input from offset p on with every region [start, end) replaced at once by its
\* placeholder: the insertions at p, then the region that starts at p or else the
\* character at p
Simultaneous(p) ==
    LET ins == IF EmptyAt(p) = {} THEN << >>
               ELSE Repeat(Assigned(CHOOSE k \in EmptyAt(p) : TRUE), Cardinality(EmptyAt(p)))
    IN  IF NonEmptyAt(p) # {}
        THEN LET k == CHOOSE k \in NonEmptyAt(p) : TRUE
             IN  ins \o Assigned(k) \o Simultaneous(ents[k].end_char)
        ELSE IF p >= Len(doc_text) THEN ins
        ELSE ins \o << doc_text[p + 1] >> \o Simultaneous(p + 1)

\* the offsets of every replacement not yet applied still delimit, in the text as
\* rewritten so far, what they delimit in the input
OffsetsStillValid ==
    \A n \in 1..Len(queue) :
        SliceTo(text, queue[n].end) = SliceTo(doc_text, queue[n].end)

\* entity k, in scope, as a position of the list replacements
ReplacementOf(k) == replacements[Cardinality(ScopedIdx(k))]

\* the first in-scope entity with the text of entity k
FirstOccurrence(k) ==
    CHOOSE m \in ScopedIdx(k) :
        /\ ents[m].text = ents[k].text
        /\ \A n \in ScopedIdx(k) : ents[n].text = ents[k].text => m <= n

\* the distinct texts among the in-scope entities up to entity n
DistinctTexts(n) == { ents[m].text : m \in ScopedIdx(n) }

UpperCase == << "A", "B", "C", "D", "E", "F", "G", "H", "I", "J", "K", "L", "M", "N", "O", "P", "Q", "R", "S", "T", "U", "V", "W", "X", "Y", "Z" >>

LowerCase == << "a", "b", "c", "d", "e", "f", "g", "h", "i", "j", "k", "l", "m", "n", "o", "p", "q", "r", "s", "t", "u", "v", "w", "x", "y", "z" >>

\* str.lower() on a character
LowerChar(c) ==
    IF \E n \in 1..Len(UpperCase) : UpperCase[n] = c
    THEN LowerCase[CHOOSE n \in 1..Len(UpperCase) : UpperCase[n] = c]
    ELSE c

Lower(t) == [ n \in 1..Len(t) |-> LowerChar(t[n]) ]

\* the offset (1-based) of the underscore that ends the word of a placeholder
UnderscoreAt(ph) == CHOOSE n \in 1..Len(ph) : ph[n] = "_" /\ \A m \in 1..(n - 1) : ph[m] # "_"

WordOf(ph) == SubSeq(ph, 1, UnderscoreAt(ph) - 1)

DigitValue(c) == (CHOOSE d \in 1..10 : DigitChars[d] = c) - 1

RECURSIVE ParseNat(_)
\* int(ds) for a sequence of decimal digits
ParseNat(ds) ==
    IF ds = << >> THEN 0
    ELSE 10 * ParseNat(SubSeq(ds, 1, Len(ds) - 1)) + DigitValue(ds[Len(ds)])

\* the ordinal a placeholder ends with
OrdinalOf(ph) == ParseNat(SubSeq(ph, UnderscoreAt(ph) + 1, Len(ph)))

\* doc.ents without the out-of-scope entities
InScopeEnts == SelectSeq(ents, LAMBDA e : e.label_ \in InScopeLabels)

ABRedacted == << "A", "p", "e", "r", "s", "o", "n", "_", "1", "B" >>

AliceRedacted == << "p", "e", "r", "s", "o", "n", "_", "1", " ", "m", "e", "t", " ", "p", "e", "r", "s", "o", "n", "_", "2", ".", " ", "p", "e", "r", "s", "o", "n", "_", "1", " ", "l", "e", "f", "t", "." >>

-----------------------------------------------------------------------------
(* Properties *)

\* C1 as stated: whenever every span is within the text, and though in-scope spans
\* overlap, deleting the placeholders from the output of anonymize_text leaves
\* exactly the characters of the input outside every in-scope span, in order.
C1_CoverageWithOverlaps ==
    (Returned /\ AllValid) => CanStrip(text, KeptFrom(0))

\* C1 as amended: for valid in-scope spans that are pairwise non-overlapping, none
\* of them a zero-length span listed before a non-empty span with the same start,
\* deleting the placeholders from the output leaves exactly the characters of the
\* input outside every in-scope span, in their order.
C1_Coverage ==
    (Returned /\ AllValid /\ NonOverlapping /\ ~EmptyListedBeforeNonEmpty)
        => CanStrip(text, KeptFrom(0))

\* two in-scope spans listed right to left, characters kept before, between and after
C1_Witness ==
    /\ Returned /\ AllValid /\ NonOverlapping /\ ~EmptyListedBeforeNonEmpty
    /\ doc_text = JohnText
    /\ Len(KeptFrom(0)) = 6
    /\ CanStrip(text, KeptFrom(0))

\* C9 as stated: for in-bounds, pairwise non-overlapping in-scope spans the loop
\* keeps the offsets of the spans not yet applied valid at every step and ends
\* with the simultaneous replacement of every region of the original text.
C9_RightToLeftAnyTie ==
    NonOverlapping =>
        /\ pc = "apply" => OffsetsStillValid
        /\ Returned => text = Simultaneous(0)

\* C9 as amended: the same, for pairwise non-overlapping in-scope spans none of
\* which is a zero-length span listed before a non-empty span with the same start;
\* and the example of the specification yields its expected output.
C9_RightToLeft ==
    /\ (NonOverlapping /\ ~EmptyListedBeforeNonEmpty) =>
          /\ pc = "apply" => OffsetsStillValid
          /\ Returned => text = Simultaneous(0)
    /\ (Returned /\ doc_text = AliceText /\ lang = "en") => text = AliceRedacted

\* the loop is half way through the example: the rightmost span is replaced, two wait
C9_Witness ==
    /\ pc = "apply" /\ doc_text = AliceText /\ lang = "en"
    /\ Len(queue) = 2 /\ text # doc_text
    /\ OffsetsStillValid

\* C2: whenever some span has start > end, start < 0 or end > len(text),
\* anonymize_text fails with InvalidSpan and returns no text: a call that returns
\* had every span within the text.
C2_Validation == Returned => AllValid

\* the first loop of anonymize_text is running or has just ended: afterwards
\* neither doc.ents nor replacements nor the table is written again
InFirstLoop == pc = "scan"

\* C3: after every iteration of the first loop, two in-scope entities with
\* exactly the same text carry the identical placeholder, however many entities lie
\* between them, and two whose texts differ only in case carry different ones.
C3_ConsistentIdentity ==
    InFirstLoop =>
        \A j \in ScopedIdx(i - 1) : \A k \in ScopedIdx(i - 1) :
            IF ents[j].text = ents[k].text
            THEN ReplacementOf(j).placeholder = ReplacementOf(k).placeholder
            ELSE Lower(ents[j].text) = Lower(ents[k].text)
                    => ReplacementOf(j).placeholder # ReplacementOf(k).placeholder

\* the same name three times, once in lower case, another entity in between
C3_Witness ==
    /\ InFirstLoop /\ i > Len(ents) /\ doc_text = JohnText
    /\ ents[1].text = ents[4].text
    /\ ReplacementOf(1).placeholder = ReplacementOf(4).placeholder
    /\ Lower(ents[1].text) = Lower(ents[2].text)
    /\ ReplacementOf(1).placeholder # ReplacementOf(2).placeholder

\* C4: after every iteration of the first loop, two different texts of the same
\* category carry different placeholders; the ordinal of an entity's placeholder
\* is the number of distinct in-scope texts met up to the first occurrence of its
\* text, so the first in-scope text has 1, a repetition adds nothing and a text
\* met earlier has the smaller ordinal.
C4_Distinctness ==
    InFirstLoop =>
        LET S == ScopedIdx(i - 1)
            ordinal == [ k \in S |-> OrdinalOf(ReplacementOf(k).placeholder) ]
            first == [ k \in S |-> FirstOccurrence(k) ]
        IN  /\ \A k \in S :
                  /\ ordinal[k] = Cardinality(DistinctTexts(first[k]))
                  /\ (\A m \in S : k <= m) => ordinal[k] = 1
            /\ \A j \in S : \A k \in S :
                  /\ (ents[j].label_ = ents[k].label_ /\ ents[j].text # ents[k].text)
                        => ReplacementOf(j).placeholder # ReplacementOf(k).placeholder
                  /\ first[j] < first[k] => ordinal[j] < ordinal[k]

\* three names of one category, the last a repetition of the first: ordinals 1, 2, 1
C4_Witness ==
    /\ InFirstLoop /\ i > Len(ents) /\ doc_text = JohnText
    /\ OrdinalOf(ReplacementOf(1).placeholder) = 1
    /\ OrdinalOf(ReplacementOf(2).placeholder) = 2
    /\ OrdinalOf(ReplacementOf(4).placeholder) = 1
    /\ Cardinality(DOMAIN placeholder_counter) = 2

\* C5: the output of anonymize_text is the output for the same entities with the
\* out-of-scope ones removed; an out-of-scope entity adds no replacement and no
\* entry, hence no ordinal, to the table.
C5_CategoryFiltering ==
    /\ Len(replacements) = Cardinality(ScopedIdx(i - 1))
    /\ DOMAIN placeholder_counter = DistinctTexts(i - 1)
    /\ Returned => text = AnonymizeText(doc_text, InScopeEnts, lang)

\* an out-of-scope entity is listed before an in-scope one that is replaced
C5_Witness ==
    /\ Returned
    /\ \E j \in 1..Len(ents) : \E k \in AllScoped :
          /\ j < k /\ ents[j].label_ \notin InScopeLabels
          /\ ~IsEmptySpan(ents[j]) /\ ents[j].text # ents[k].text
          /\ OrdinalOf(Assigned(k)) = 1
    /\ text # doc_text

\* C8: when the only in-scope span is a zero-length span at start, the output is
\* text[:start], the placeholder numbered 1, then text[start:]; the example of the
\* specification, "AB" with (1, 1, PERSON), yields "Aperson_1B".
C8_ZeroLength ==
    /\ \A k \in AllScoped :
          (Returned /\ AllScoped = {k} /\ IsEmptySpan(ents[k]) /\ ValidEnt(ents[k])) =>
             text = SliceTo(doc_text, ents[k].start_char)
                    \o PlaceholderMapping(lang)[ents[k].label_] \o << "_", "1" >>
                    \o SliceFrom(doc_text, ents[k].start_char)
    /\ (Returned /\ doc_text = ABText /\ lang = "en") => text = ABRedacted

\* the example of the specification has been rewritten
C8_Witness ==
    /\ Returned /\ doc_text = ABText /\ lang = "en"
    /\ AllScoped = {1} /\ IsEmptySpan(ents[1])
    /\ Len(text) = Len(doc_text) + 8

\* C10: after any prefix of the entities the table holds the distinct in-scope
\* texts met so far, their ordinals are exactly 1..k whatever the categories, the
\* word of each is that of the label of its first in-scope occurrence, and every
\* occurrence, under whatever label, carries the placeholder of the table.
C10_SharedCounter ==
    InFirstLoop =>
        /\ DOMAIN placeholder_counter = DistinctTexts(i - 1)
        /\ { OrdinalOf(placeholder_counter[t]) : t \in DOMAIN placeholder_counter }
              = 1..Cardinality(DOMAIN placeholder_counter)
        /\ \A k \in ScopedIdx(i - 1) :
              /\ ReplacementOf(k).placeholder = placeholder_counter[ents[k].text]
              /\ WordOf(placeholder_counter[ents[k].text])
                    = PlaceholderMapping(lang)[ents[FirstOccurrence(k)].label_]

\* a place numbered 1, then a date numbered 2, then a person of the same text as
\* the date, which takes the date's placeholder
C10_Witness ==
    /\ pc = "scan" /\ doc_text = MayText /\ i = 4
    /\ OrdinalOf(ReplacementOf(2).placeholder) = 2
    /\ ents[3].label_ = "PERSON" /\ ents[2].label_ = "DATE"
    /\ ReplacementOf(3).placeholder = ReplacementOf(2).placeholder

InitialOutFiles == {NoFile, OldFile}

\* C6: a run of main that ends normally has read the input and written the output
\* file, which holds the redacted text; a run that has not ended normally has
\* neither created nor modified the output file, and a run with an unsupported
\* language, input extension or output format never ends normally.
C6_NoPartialSuccess ==
    /\ pc = "done" =>
          /\ error = "none" /\ io_log = << "read", "write" >>
          /\ out_file = AnonymizeText(in_file, ents, lang)
    /\ pc # "done" =>
          /\ out_file \in InitialOutFiles
          /\ \A n \in 1..Len(io_log) : io_log[n] # "write"
    /\ (language \notin {"english", "hebrew"} \/ suffix \notin {".txt", ".docx"}
          \/ output_format \notin {"txt", "docx", "pdf"}) => pc # "done"

\* the text has been read and redacted, and the output format is then refused
C6_Witness ==
    /\ pc = "error" /\ error = "Unsupported output format"
    /\ replacements # << >> /\ text # in_file
    /\ out_file = OldFile

\* C7: with a language other than "english" and "hebrew" the run goes from its
\* start to the unsupported-language error and nowhere else, with no file read,
\* opened or written, whatever the input extension and the output format.
C7_LanguageFirst ==
    language \notin {"english", "hebrew"} =>
        /\ pc \in {"main", "error"}
        /\ pc = "error" => error = "Unsupported language"
        /\ io_log = << >>
        /\ out_file \in InitialOutFiles

\* the language, the input extension and the output format are all unsupported
C7_Witness ==
    /\ pc = "error" /\ error = "Unsupported language"
    /\ language = "french" /\ suffix = ".pdf" /\ output_format = "odt"
    /\ io_log = << >>

====
